---- MODULE Spec2Model ----
(***************************************************************************)
(* The DFPlayer-Mini serial driver of lib/DFPlayer.py as a state machine.  *)
(*                                                                         *)
(* The program state is the driver object (_media, _latency) and the       *)
(* position of the one public call in progress (pc, op, args, qcmd, res).  *)
(* The transport is the UART: `written` and `slept` record what the call   *)
(* in progress handed to uart.write and to time.sleep, `rx` is the UART    *)
(* receive buffer (a sequence of bytes) and `wire` holds the bytes of a    *)
(* frame the device has begun to send and that have not arrived yet.       *)
(* Times are in milliseconds.  Python's None is the empty tuple, a value v *)
(* that may be None is <<v>>.                                              *)
(***************************************************************************)
EXTENDS Integers, Sequences, FiniteSets, TLC

VARIABLES
    pc,        \* "new": not constructed; "drain": inside _read_response;
               \* "returned": a public call has just returned or raised;
               \* "idle": between public calls; "dead": __init__ raised
    op,        \* name of the public call in progress or just returned
    args,      \* its arguments, in the order of the signature
    _media,    \* self._media
    _latency,  \* self._latency, in ms
    qcmd,      \* the command code the query in progress wrote (0: none)
    res,       \* the local `res` of _read_response; after the call, its value
    ret,       \* value the last public call returned
    err,       \* "" or the exception the last public call raised
    written,   \* frames handed to uart.write by the call, in order
    slept,     \* the time.sleep after each of them, in ms
    rx,        \* UART receive buffer: bytes that arrived and were not read
    wire       \* bytes of a frame in transmission that have not arrived yet

vars == <<pc, op, args, _media, _latency, qcmd, res, ret, err,
          written, slept, rx, wire>>

----------------------------------------------------------------------------
(* Class constants *)

MEDIA_U_DISK == 1
MEDIA_SD == 2
MEDIA_AUX == 3
MEDIA_SLEEP == 4
MEDIA_FLASH == 5
MAX_VOLUME == 30
STATUS_BUSY == \H0201

None == <<>>
Some(v) == <<v>>

(* Bounds of the model *)

\* frames' worth of bytes the receive buffer holds at most
MaxRx == 2
FrameLen == 10
\* how many bytes of a frame arrive first when it arrives in two pieces
PartLens == {4}

MediaSources == {MEDIA_U_DISK, MEDIA_SD, MEDIA_AUX, MEDIA_SLEEP, MEDIA_FLASH}
Latencies == {250}
QueryCmds == {\H42, \H43, \H44, \H45, \H46, \H47, \H48, \H49, \H4C, \H4E}
\* "track finished" notification the device sends unasked
NotifyCmd == \H3D

----------------------------------------------------------------------------
(* Frame codec *)

IsByte(b) == b \in 0..255

\* the sleep that follows the write of command `cmd`
SettleDelay(cmd, latency) ==
    IF cmd = \H09 THEN 200
    ELSE IF cmd = \H0C THEN 1000
    ELSE IF cmd \in {\H47, \H48, \H49, \H4E} THEN 500
    ELSE IF cmd \in {\H03, \H0D, \H0F, \H12, \H13} \/ cmd \in {\H16} THEN 0
    ELSE latency

\* the 8 bytes of a command frame
CommandFrame(cmd, dataL, dataH) ==
    <<\H7E, \HFF, \H06, cmd, \H00, dataH, dataL, \HEF>>

\* _write_data keeping the low 8 bits of each element instead of raising
WriteDataMasked(cmd, dataL, dataH, latency) ==
    [raised |-> FALSE,
     tx     |-> <<CommandFrame(cmd % 256, dataL % 256, dataH % 256)>>,
     naps   |-> <<SettleDelay(cmd, latency)>>]

\* _write_data: bytes([...]) raises ValueError when an element is not in
\* range(256), before anything is written or slept
_write_data(cmd, dataL, dataH, latency) ==
    IF IsByte(cmd) /\ IsByte(dataL) /\ IsByte(dataH)
    THEN [raised |-> FALSE,
          tx     |-> <<CommandFrame(cmd, dataL, dataH)>>,
          naps   |-> <<SettleDelay(cmd, latency)>>]
    ELSE [raised |-> TRUE, tx |-> <<>>, naps |-> <<>>]

\* _read_data rejecting a chunk whose two checksum bytes are not the
\* 16-bit complement of the sum of bytes 1 to 6
ReadDataChecksum(buf) ==
    IF Len(buf) = 0
    THEN [r |-> None, rest |-> buf]
    ELSE LET n    == IF Len(buf) < 10 THEN Len(buf) ELSE 10
             b    == SubSeq(buf, 1, n)
             rest == SubSeq(buf, n + 1, Len(buf))
         IN  IF n # 10
             THEN [r |-> None, rest |-> rest]
             ELSE IF b[1] # \H7E \/ b[2] # \HFF \/ b[3] # \H06 \/ b[10] # \HEF
             THEN [r |-> None, rest |-> rest]
             ELSE IF (b[2] + b[3] + b[4] + b[5] + b[6] + b[7]
                        + b[8] * 256 + b[9]) % 65536 # 0
             THEN [r |-> None, rest |-> rest]
             ELSE [r |-> <<b[4], b[6] * 256 + b[7]>>, rest |-> rest]

\* _read_data on receive buffer `buf`: the tuple returned (or None) and what
\* is left in the buffer.  uart.read(10) takes the bytes that are there, at
\* most 10.
_read_data(buf) ==
    IF Len(buf) = 0
    THEN [r |-> None, rest |-> buf]
    ELSE LET n    == IF Len(buf) < 10 THEN Len(buf) ELSE 10
             b    == SubSeq(buf, 1, n)
             rest == SubSeq(buf, n + 1, Len(buf))
         IN  IF n # 10
             THEN [r |-> None, rest |-> rest]
             ELSE IF b[1] # \H7E \/ b[2] # \HFF \/ b[3] # \H06 \/ b[10] # \HEF
             THEN [r |-> None, rest |-> rest]
             ELSE [r |-> <<b[4], b[6] * 256 + b[7]>>, rest |-> rest]

\* _read_response returning at the first valid frame instead of the last
ReadResponseFirst(acc, buf) ==
    LET d == _read_data(buf)
    IN  [res |-> IF d.r = None THEN acc ELSE d.r, rest |-> d.rest]

\* _read_response run to its return on receive buffer `buf` with nothing
\* arriving meanwhile, `acc` being the local res: the value returned and
\* what is left in the buffer
RECURSIVE _read_response(_, _)
_read_response(acc, buf) ==
    LET d == _read_data(buf)
    IN  IF d.r = None
        THEN [res |-> acc, rest |-> d.rest]
        ELSE _read_response(d.r, d.rest)

----------------------------------------------------------------------------
(* Value conversions of the public operations *)

Min(a, b) == IF a < b THEN a ELSE b
Max(a, b) == IF a > b THEN a ELSE b

\* set_volume without the clamp to 0..100
VolumeRawNoClamp(percent) == (percent * MAX_VOLUME) \div 100

\* set_volume: int(max(0, min(100, percent)) * MAX_VOLUME / 100)
VolumeRaw(percent) == (Max(0, Min(100, percent)) * MAX_VOLUME) \div 100

\* get_volume dividing in integers before it multiplies
VolumePctIntDiv(raw) == (raw \div MAX_VOLUME) * 100

\* get_volume: int(r[1] / MAX_VOLUME * 100).  The quotient is a float; for
\* the data values of RespData and for 0..MAX_VOLUME the float product is
\* not below the exact one, so int() gives the truncated exact quotient.
VolumePct(raw) == (raw * 100) \div MAX_VOLUME

\* set_eq: values outside 0..5 become 0
EqRaw(eq) == IF eq < 0 \/ eq > 5 THEN 0 ELSE eq

\* num_files with the USB and SD query commands exchanged
FilesCmdSwapped(media) ==
    IF media = MEDIA_U_DISK THEN Some(\H48)
    ELSE IF media = MEDIA_SD THEN Some(\H47)
    ELSE IF media = MEDIA_FLASH THEN Some(\H49)
    ELSE None

\* num_files: the query command of a media source, None when it has none
FilesCmd(media) ==
    IF media = MEDIA_U_DISK THEN Some(\H47)
    ELSE IF media = MEDIA_SD THEN Some(\H48)
    ELSE IF media = MEDIA_FLASH THEN Some(\H49)
    ELSE None

\* the return expressions without the test of the echoed command
AnswerAnyEcho(name, cmd, r) ==
    LET hit == r # None
    IN  CASE name = "get_volume" ->
               Some(IF hit THEN VolumePct(r[2]) ELSE 0)
          [] name \in {"get_eq", "num_files"} ->
               Some(IF hit THEN r[2] ELSE 0)
          [] OTHER ->
               IF hit THEN Some(r[2]) ELSE None

\* the return expression of each query, r being what _read_response gave
Answer(name, cmd, r) ==
    LET hit == r # None /\ r[1] = cmd
    IN  CASE name = "get_volume" ->
               Some(IF hit THEN VolumePct(r[2]) ELSE 0)
          [] name \in {"get_eq", "num_files"} ->
               Some(IF hit THEN r[2] ELSE 0)
          [] OTHER ->
               IF hit THEN Some(r[2]) ELSE None

\* Python truth value of what a query returned
Truthy(v) == v # None /\ v[1] # 0

----------------------------------------------------------------------------
(* Arguments the callers pass *)

Opt(S) == {None} \cup {Some(x) : x \in S}

InitVolumes == {50, 150}
InitEqs == {0, 9}
PlayFolders == {2, 256}
PlayTracks == {5, 517, 65536}
AdvertTracks == {-1, 0, 1, 517, 9999, 10000}
LoopFolders == {1, 256}
Percents == {-1, 0, 1, 3, 4, 50, 99, 100, 101, 150}
Eqs == {-1, 0, 3, 5, 6, 9}
\* the five sources, and a value that does not fit a data byte
MediaArgs == MediaSources \cup {256}
FileFolders == {1, 256}
FileMedia == {0, MEDIA_U_DISK, MEDIA_AUX}
\* the (folder, media) pairs num_files is called with
FileArgs ==
    {<<Some(f), None>> : f \in FileFolders}
        \cup {<<None, m>> : m \in Opt(FileMedia)}

----------------------------------------------------------------------------
(* The shapes the public methods share *)

\* a method that empties the receive buffer after its write
CommandFlushing(name, a, cmd, dataL, dataH) ==
    /\ pc = "idle"
    /\ LET w == _write_data(cmd, dataL, dataH, _latency)
       IN  /\ written' = w.tx
           /\ slept' = w.naps
           /\ err' = IF w.raised THEN "ValueError" ELSE ""
    /\ op' = name
    /\ args' = a
    /\ qcmd' = 0
    /\ res' = None
    /\ ret' = None
    /\ pc' = "returned"
    /\ rx' = <<>>
    /\ UNCHANGED <<_media, _latency, wire>>

\* a method whose body is one _write_data call and no read
Command(name, a, cmd, dataL, dataH) ==
    /\ pc = "idle"
    /\ LET w == _write_data(cmd, dataL, dataH, _latency)
       IN  /\ written' = w.tx
           /\ slept' = w.naps
           /\ err' = IF w.raised THEN "ValueError" ELSE ""
    /\ op' = name
    /\ args' = a
    /\ qcmd' = 0
    /\ res' = None
    /\ ret' = None
    /\ pc' = "returned"
    /\ UNCHANGED <<_media, _latency, rx, wire>>

\* a method that writes a query and then calls _read_response
Query(name, a, cmd, dataL, dataH) ==
    /\ pc = "idle"
    /\ LET w == _write_data(cmd, dataL, dataH, _latency)
       IN  /\ written' = w.tx
           /\ slept' = w.naps
           /\ err' = IF w.raised THEN "ValueError" ELSE ""
           /\ pc' = IF w.raised THEN "returned" ELSE "drain"
           /\ qcmd' = IF w.raised THEN 0 ELSE cmd
    /\ op' = name
    /\ args' = a
    /\ res' = None
    /\ ret' = None
    /\ UNCHANGED <<_media, _latency, rx, wire>>

\* a method that raises or returns before any transport call
NoTransport(name, a, e, v) ==
    /\ pc = "idle"
    /\ op' = name
    /\ args' = a
    /\ err' = e
    /\ ret' = v
    /\ written' = <<>>
    /\ slept' = <<>>
    /\ qcmd' = 0
    /\ res' = None
    /\ pc' = "returned"
    /\ UNCHANGED <<_media, _latency, rx, wire>>

----------------------------------------------------------------------------
(* Construction *)

\* __init__ up to the _read_response of its get_status: set_media(media),
\* then the write of the status query
__init__ ==
    /\ pc = "new"
    /\ \E media \in MediaSources, volume_pct \in InitVolumes,
          eq \in InitEqs, latency \in Latencies :
        LET w1 == _write_data(\H09, media, 0, latency)
            w2 == _write_data(\H42, 0, 0, latency)
        IN  /\ _latency' = latency
            /\ _media' = media
            /\ args' = <<media, volume_pct, eq, latency>>
            /\ IF w1.raised
               THEN /\ written' = <<>>
                    /\ slept' = <<>>
                    /\ err' = "ValueError"
                    /\ pc' = "dead"
                    /\ qcmd' = 0
               ELSE /\ written' = w1.tx \o w2.tx
                    /\ slept' = w1.naps \o w2.naps
                    /\ err' = ""
                    /\ pc' = "drain"
                    /\ qcmd' = \H42
    /\ op' = "__init__"
    /\ res' = None
    /\ ret' = None
    /\ UNCHANGED <<rx, wire>>

\* __init__ going on to set_volume and set_eq whatever get_status returned
InitTailNoCheck ==
    LET w1 == _write_data(\H06, VolumeRaw(args[2]), 0, _latency)
        w2 == _write_data(\H07, EqRaw(args[3]), 0, _latency)
    IN  /\ written' = written \o w1.tx \o w2.tx
        /\ slept' = slept \o w1.naps \o w2.naps
        /\ err' = ""
        /\ pc' = "returned"

\* __init__ from the return of get_status on: raise, or set_volume and set_eq
InitTail ==
    IF ~Truthy(Answer("get_status", \H42, res))
    THEN /\ err' = "Exception"
         /\ pc' = "dead"
         /\ UNCHANGED <<written, slept>>
    ELSE LET w1 == _write_data(\H06, VolumeRaw(args[2]), 0, _latency)
             w2 == _write_data(\H07, EqRaw(args[3]), 0, _latency)
         IN  /\ written' = written \o w1.tx \o w2.tx
             /\ slept' = slept \o w1.naps \o w2.naps
             /\ err' = ""
             /\ pc' = "returned"

----------------------------------------------------------------------------
(* _read_response, one pass of its loop per step *)

read_response_step ==
    /\ pc = "drain"
    /\ LET d == _read_data(rx)
       IN  /\ rx' = d.rest
           /\ IF d.r # None
              THEN /\ res' = d.r
                   /\ UNCHANGED <<pc, ret, err, written, slept>>
              ELSE IF op = "__init__"
              THEN /\ InitTail
                   /\ UNCHANGED <<res, ret>>
              ELSE /\ ret' = Answer(op, qcmd, res)
                   /\ pc' = "returned"
                   /\ UNCHANGED <<res, err, written, slept>>
    /\ UNCHANGED <<op, args, _media, _latency, qcmd, wire>>

\* the caller goes on: the record of the finished call is dropped
Discard ==
    /\ pc = "returned"
    /\ pc' = "idle"
    /\ op' = ""
    /\ args' = <<>>
    /\ qcmd' = 0
    /\ res' = None
    /\ ret' = None
    /\ err' = ""
    /\ written' = <<>>
    /\ slept' = <<>>
    /\ UNCHANGED <<_media, _latency, rx, wire>>

----------------------------------------------------------------------------
(* Playback control *)

\* play with folder and track putting the folder into DataL
play_folder_low ==
    \E folder \in Opt(PlayFolders), track \in Opt(PlayTracks) :
        IF folder = None /\ track = None
        THEN Command("play", <<folder, track>>, \H0D, 0, 0)
        ELSE IF folder = None
        THEN Command("play", <<folder, track>>,
                     \H03, track[1] % 256, track[1] \div 256)
        ELSE IF track = None
        THEN Command("play", <<folder, track>>, \H12, folder[1], 0)
        ELSE Command("play", <<folder, track>>, \H0F, folder[1], track[1])

play ==
    \E folder \in Opt(PlayFolders), track \in Opt(PlayTracks) :
        IF folder = None /\ track = None
        THEN Command("play", <<folder, track>>, \H0D, 0, 0)
        ELSE IF folder = None
        THEN Command("play", <<folder, track>>,
                     \H03, track[1] % 256, track[1] \div 256)
        ELSE IF track = None
        THEN Command("play", <<folder, track>>, \H12, folder[1], 0)
        ELSE Command("play", <<folder, track>>, \H0F, track[1], folder[1])

random == Command("random", <<>>, \H18, 0, 0)

\* play_advert accepting track 0
play_advert_from_0 ==
    \E track \in AdvertTracks :
        IF ~(0 <= track /\ track <= 9999)
        THEN NoTransport("play_advert", <<track>>, "ValueError", None)
        ELSE Command("play_advert", <<track>>,
                     \H13, track % 256, track \div 256)

play_advert ==
    \E track \in AdvertTracks :
        IF ~(1 <= track /\ track <= 9999)
        THEN NoTransport("play_advert", <<track>>, "ValueError", None)
        ELSE Command("play_advert", <<track>>,
                     \H13, track % 256, track \div 256)

stop_advert == Command("stop_advert", <<>>, \H15, 0, 0)

pause == Command("pause", <<>>, \H0E, 0, 0)

stop == Command("stop", <<>>, \H16, 0, 0)

next == Command("next", <<>>, \H01, 0, 0)

previous == Command("previous", <<>>, \H02, 0, 0)

loop ==
    \E on \in BOOLEAN :
        Command("loop", <<on>>, \H19, IF on THEN 0 ELSE 1, 0)

loop_all ==
    \E on \in BOOLEAN :
        Command("loop_all", <<on>>, \H11, IF on THEN 1 ELSE 0, 0)

loop_folder ==
    \E folder \in LoopFolders :
        Command("loop_folder", <<folder>>, \H17, folder, 0)

----------------------------------------------------------------------------
(* Volume and EQ *)

volume_up == Command("volume_up", <<>>, \H04, 0, 0)

volume_down == Command("volume_down", <<>>, \H05, 0, 0)

set_volume ==
    \E percent \in Percents :
        Command("set_volume", <<percent>>, \H06, VolumeRaw(percent), 0)

get_volume == Query("get_volume", <<>>, \H43, 0, 0)

set_eq ==
    \E eq \in Eqs :
        Command("set_eq", <<eq>>, \H07, EqRaw(eq), 0)

get_eq == Query("get_eq", <<>>, \H44, 0, 0)

----------------------------------------------------------------------------
(* Media and power control *)

\* set_media remembering the source only when the write went through
set_media_after_write ==
    \E media \in MediaArgs :
        /\ pc = "idle"
        /\ LET w == _write_data(\H09, media, 0, _latency)
           IN  /\ written' = w.tx
               /\ slept' = w.naps
               /\ err' = IF w.raised THEN "ValueError" ELSE ""
               /\ _media' = IF w.raised THEN _media ELSE media
        /\ op' = "set_media"
        /\ args' = <<media>>
        /\ qcmd' = 0
        /\ res' = None
        /\ ret' = None
        /\ pc' = "returned"
        /\ UNCHANGED <<_latency, rx, wire>>

\* self._media is assigned before _write_data can raise
set_media ==
    \E media \in MediaArgs :
        /\ pc = "idle"
        /\ _media' = media
        /\ LET w == _write_data(\H09, media, 0, _latency)
           IN  /\ written' = w.tx
               /\ slept' = w.naps
               /\ err' = IF w.raised THEN "ValueError" ELSE ""
        /\ op' = "set_media"
        /\ args' = <<media>>
        /\ qcmd' = 0
        /\ res' = None
        /\ ret' = None
        /\ pc' = "returned"
        /\ UNCHANGED <<_latency, rx, wire>>

set_standby ==
    \E on \in BOOLEAN :
        Command("set_standby", <<on>>, IF on THEN \H0A ELSE \H0B, 0, 0)

reset == Command("reset", <<>>, \H0C, 0, 0)

----------------------------------------------------------------------------
(* Status queries *)

get_status == Query("get_status", <<>>, \H42, 0, 0)

get_mode == Query("get_mode", <<>>, \H45, 0, 0)

get_version == Query("get_version", <<>>, \H46, 0, 0)

current_file == Query("current_file", <<>>, \H4C, 0, 0)

\* `media or self._media`: a media of None or 0 gives self._media
num_files ==
    \E fm \in FileArgs :
        LET folder == fm[1]
            media  == fm[2]
        IN
        IF folder # None
        THEN Query("num_files", <<folder, media>>, \H4E, folder[1], 0)
        ELSE LET m   == IF media = None \/ media[1] = 0
                        THEN _media ELSE media[1]
                 cmd == FilesCmd(m)
             IN  IF cmd = None
                 THEN NoTransport("num_files", <<folder, media>>, "", Some(0))
                 ELSE Query("num_files", <<folder, media>>, cmd[1], 0, 0)

----------------------------------------------------------------------------
(* The device and the serial line *)

\* a 10-byte response frame as the device builds it, checksum included
ResponseFrame(cmd, fb, data) ==
    LET dh == data \div 256
        dl == data % 256
        ck == (65536 - (\HFF + \H06 + cmd + fb + dh + dl)) % 65536
    IN  <<\H7E, \HFF, \H06, cmd, fb, dh, dl, ck \div 256, ck % 256, \HEF>>

\* line noise: byte i of a frame changed
Garble(f, i) == [f EXCEPT ![i] = (f[i] + 1) % 256]

\* positions hit by noise: the start marker and a checksum byte
GarbleAt == {1, 8}

\* data values the device answers a query with: a status word or none
\* playing, a volume of 0..MAX_VOLUME or the largest 16-bit value, a count
RespData(cmd) ==
    IF cmd = \H42 THEN {0, STATUS_BUSY}
    ELSE IF cmd = \H43 THEN {0, 1, 15, 29, MAX_VOLUME, 65535}
    ELSE {7}

\* the reply that arrives in two pieces carries this
PartData(cmd) == CHOOSE d \in RespData(cmd) : d # 0

\* the notification, sent at any time
Notification == ResponseFrame(NotifyCmd, 0, 1)

\* what the device may put on the line: the notification, and while the
\* driver waits for the answer to query qcmd, a reply to it or a frame
\* with one byte changed
DeviceFrames ==
    IF pc = "drain"
    THEN {ResponseFrame(qcmd, 0, d) : d \in RespData(qcmd)}
         \cup {Notification}
         \cup {Garble(Notification, i) : i \in GarbleAt}
    ELSE {Notification}

RxRoom == MaxRx * FrameLen - Len(rx)

\* a whole frame arrives
DeviceSend ==
    /\ pc \in {"new", "drain", "idle"}
    /\ wire = <<>>
    /\ RxRoom >= FrameLen
    /\ \E f \in DeviceFrames : rx' = rx \o f
    /\ UNCHANGED <<pc, op, args, _media, _latency, qcmd, res, ret, err,
                   written, slept, wire>>

\* the first bytes of a reply arrive, the others are still on the line
DevicePart ==
    /\ pc = "drain"
    /\ wire = <<>>
    /\ RxRoom >= FrameLen
    /\ \E n \in PartLens :
        LET f == ResponseFrame(qcmd, 0, PartData(qcmd))
        IN  /\ rx' = rx \o SubSeq(f, 1, n)
            /\ wire' = SubSeq(f, n + 1, FrameLen)
    /\ UNCHANGED <<pc, op, args, _media, _latency, qcmd, res, ret, err,
                   written, slept>>

\* the bytes on the line arrive
DeviceRest ==
    /\ pc \in {"new", "drain", "idle"}
    /\ wire # <<>>
    /\ rx' = rx \o wire
    /\ wire' = <<>>
    /\ UNCHANGED <<pc, op, args, _media, _latency, qcmd, res, ret, err,
                   written, slept>>

----------------------------------------------------------------------------
(* The state machine *)

Init ==
    /\ pc = "new"
    /\ op = ""
    /\ args = <<>>
    /\ _media = 0
    /\ _latency = 0
    /\ qcmd = 0
    /\ res = None
    /\ ret = None
    /\ err = ""
    /\ written = <<>>
    /\ slept = <<>>
    /\ rx = <<>>
    /\ wire = <<>>

Next ==
    \/ __init__
    \/ read_response_step
    \/ Discard
    \/ play
    \/ random
    \/ play_advert
    \/ stop_advert
    \/ pause
    \/ stop
    \/ next
    \/ previous
    \/ loop
    \/ loop_all
    \/ loop_folder
    \/ volume_up
    \/ volume_down
    \/ set_volume
    \/ get_volume
    \/ set_eq
    \/ get_eq
    \/ set_media
    \/ set_standby
    \/ reset
    \/ get_status
    \/ get_mode
    \/ get_version
    \/ current_file
    \/ num_files
    \/ DeviceSend
    \/ DevicePart
    \/ DeviceRest

Spec == Init /\ [][Next]_vars

\* the interpreter keeps running the loop of _read_response: a pass of the
\* loop that can be taken is taken
LiveSpec == Spec /\ WF_vars(read_response_step)

----------------------------------------------------------------------------
(* Vocabulary of the properties *)

\* the i-th 10-byte chunk of a buffer, i from 1
Chunk(buf, i) == SubSeq(buf, FrameLen * (i - 1) + 1, FrameLen * i)
Chunks(buf) == Len(buf) \div FrameLen
Aligned(buf) == Len(buf) % FrameLen = 0

\* a chunk with the four markers in place, and the (command, data) it carries
IsValidFrame(c) ==
    c[1] = \H7E /\ c[2] = \HFF /\ c[3] = \H06 /\ c[10] = \HEF
FrameValue(c) == <<c[4], c[6] * 256 + c[7]>>

\* a buffer that is k >= 1 valid frames, one after the other
ValidFrames(buf) ==
    /\ Aligned(buf)
    /\ Chunks(buf) >= 1
    /\ \A i \in 1..Chunks(buf) : IsValidFrame(Chunk(buf, i))

\* (command, data) of the last valid chunk of an aligned buffer, acc if none
LastValid(acc, buf) ==
    LET ok == {i \in 1..Chunks(buf) : IsValidFrame(Chunk(buf, i))}
    IN  IF ok = {} THEN acc
        ELSE FrameValue(Chunk(buf, CHOOSE i \in ok : \A j \in ok : j <= i))

\* the command bytes of a sequence of written frames
Cmds(frames) == [i \in 1..Len(frames) |-> frames[i][4]]

QueryOps == {"get_status", "get_mode", "get_version", "current_file",
             "num_files", "get_volume", "get_eq"}
NoneOps == {"get_status", "get_mode", "get_version", "current_file"}

----------------------------------------------------------------------------
(* Properties *)

\* C1: whenever _read_response runs on a receive buffer that is k >= 1 valid
\* 10-byte frames, it returns the (command, data) of the last of them, not
\* of an earlier one, and leaves the buffer empty.
C1_DrainReturnsLastFrame ==
    (pc = "drain" /\ ValidFrames(rx)) =>
        _read_response(res, rx)
            = [res  |-> FrameValue(Chunk(rx, Chunks(rx))),
               rest |-> <<>>]

\* C1 witness: the poll has read one valid frame and a second valid frame
\* for another command is waiting behind it.
C1_Witness ==
    /\ pc = "drain"
    /\ res # None
    /\ ValidFrames(rx)
    /\ FrameValue(Chunk(rx, 1))[1] # res[1]

\* the step action follows the loop: a pass of the loop leaves the value
\* _read_response will return, and the buffer it will leave, as they were
DrainFollowsLoop ==
    [][(pc = "drain" /\ wire' = wire /\ Len(rx') <= Len(rx)) =>
          LET e == _read_response(res, rx)
          IN  IF pc' = "drain"
              THEN _read_response(res', rx') = e
              ELSE res' = e.res /\ rx' = e.rest]_vars

\* C2 (as claimed): an invalid chunk does not end the poll: on a buffer of
\* 10-byte chunks _read_response reads to the end of the buffer and returns
\* the last valid frame of the whole buffer.
C2_InvalidChunkDoesNotEndDrain ==
    (pc = "drain" /\ Aligned(rx)) =>
        _read_response(res, rx)
            = [res |-> LastValid(res, rx), rest |-> <<>>]

\* C3: a query returns data only from a decoded frame whose command echo is
\* the command the call wrote; with another echo, or no frame, it returns
\* None (get_status, get_mode, get_version, current_file) or 0 (get_volume,
\* get_eq, num_files).
C3_QueryChecksEcho ==
    (pc = "returned" /\ op \in QueryOps /\ Len(written) = 1) =>
        LET hit == res # None /\ res[1] = written[1][4]
        IN  IF hit
            THEN ret = Some(IF op = "get_volume"
                            THEN (res[2] * 100) \div MAX_VOLUME
                            ELSE res[2])
            ELSE ret = (IF op \in NoneOps THEN None ELSE Some(0))

\* C3 witness: get_volume has returned 0 although the last frame decoded,
\* the echo of another command, carried a non-zero value.
C3_Witness ==
    /\ pc = "returned"
    /\ op = "get_volume"
    /\ res # None
    /\ res[1] # \H43
    /\ res[2] # 0
    /\ ret = Some(0)

\* C4: construction writes the set-media frame (0x09) and then the status
\* query (0x42); when no valid status response was received it raises and
\* no set-volume (0x06) or set-eq (0x07) frame is written.
C4_InitFailsWithoutStatus ==
    (op = "__init__" /\ pc \in {"drain", "returned", "dead"}) =>
        /\ Len(written) >= 2
        /\ written[1] = <<\H7E, \HFF, \H06, \H09, 0, 0, args[1], \HEF>>
        /\ written[2] = <<\H7E, \HFF, \H06, \H42, 0, 0, 0, \HEF>>
        /\ (pc # "drain" /\ ~(res # None /\ res[1] = \H42)) =>
              /\ pc = "dead"
              /\ err = "Exception"
              /\ Cmds(written) = <<\H09, \H42>>

\* C4 witness: construction has raised after a poll that decoded a frame
\* which was not a status response.
C4_Witness ==
    /\ op = "__init__"
    /\ pc = "dead"
    /\ err = "Exception"
    /\ res # None
    /\ res[1] # \H42

\* C5 (as claimed): construction succeeds whenever the poll of the status
\* query returned a frame echoing 0x42, whatever its data, and has then
\* written exactly 0x09, 0x42, 0x06, 0x07.
C5_InitSucceedsOnAnyStatus ==
    (op = "__init__" /\ pc \in {"returned", "dead"}
        /\ res # None /\ res[1] = \H42) =>
        /\ pc = "returned"
        /\ err = ""
        /\ Cmds(written) = <<\H09, \H42, \H06, \H07>>

\* the settle delay the timing table gives a command
TableDelay(cmd) ==
    IF cmd = \H09 THEN 200
    ELSE IF cmd = \H0C THEN 1000
    ELSE IF cmd \in {\H47, \H48, \H49, \H4E} THEN 500
    ELSE IF cmd \in {\H0D, \H03, \H12, \H0F, \H16, \H13, \H15} THEN 0
    ELSE _latency

\* C6 (as claimed): the sleep after each written frame is 200 ms for
\* set-media, 1000 ms for reset, 500 ms for the file-count queries, 0 ms
\* for play, stop, advert-play and advert-stop, and the default latency
\* for every other command.
C6_SettleDelayTable ==
    /\ Len(slept) = Len(written)
    /\ \A i \in 1..Len(written) : slept[i] = TableDelay(written[i][4])

\* C7: play_advert(track) with track outside 1..9999 raises ValueError
\* having written nothing, with the receive buffer and the driver state
\* as they were; with track in 1..9999 it writes the one frame
\* 7E FF 06 13 00 <track div 256> <track mod 256> EF.
C7_PlayAdvertRange ==
    [][(pc = "idle" /\ op' = "play_advert") =>
          LET track == args'[1]
          IN  /\ pc' = "returned"
              /\ rx' = rx
              /\ _media' = _media
              /\ _latency' = _latency
              /\ IF track < 1 \/ track > 9999
                 THEN err' = "ValueError" /\ written' = <<>> /\ slept' = <<>>
                 ELSE /\ err' = ""
                      /\ written' = << <<\H7E, \HFF, \H06, \H13, 0,
                                        track \div 256, track % 256, \HEF>> >>
              /\ (track = 1) => (written'[1][7] = 1 /\ written'[1][6] = 0)
              /\ (track = 9999) =>
                    (written'[1][7] = \H0F /\ written'[1][6] = \H27)]_vars

\* C7 witness: play_advert(10000) has raised with bytes waiting in the
\* receive buffer.
C7_Witness ==
    /\ pc = "returned"
    /\ op = "play_advert"
    /\ args = <<10000>>
    /\ err = "ValueError"
    /\ rx # <<>>

\* C8: set_volume(percent) raises for no percent; it writes the one frame
\* 7E FF 06 06 00 00 <v> EF with v the percent clamped to 0..100, times 30,
\* divided by 100, truncated.
C8_SetVolumeClamps ==
    (pc = "returned" /\ op = "set_volume") =>
        LET percent == args[1]
            clamped == IF percent < 0 THEN 0
                       ELSE IF percent > 100 THEN 100 ELSE percent
            v       == (clamped * 30) \div 100
        IN  /\ err = ""
            /\ v \in 0..30
            /\ written = << <<\H7E, \HFF, \H06, \H06, 0, 0, v, \HEF>> >>

\* C8 witness: set_volume of more than 100 percent has written device
\* value 30.
C8_Witness ==
    /\ pc = "returned"
    /\ op = "set_volume"
    /\ args[1] > 100
    /\ written[1][7] = 30

\* C9: get_volume writes the 0x43 query; when the frame its poll returned
\* echoes 0x43 with value r it returns r * 100 / 30 truncated (15 gives 50,
\* 0 gives 0, 30 gives 100), and 0 otherwise.
C9_GetVolumeScales ==
    (pc = "returned" /\ op = "get_volume") =>
        /\ written = << <<\H7E, \HFF, \H06, \H43, 0, 0, 0, \HEF>> >>
        /\ IF res # None /\ res[1] = \H43
           THEN /\ ret = Some((res[2] * 100) \div 30)
                /\ (res[2] = 15) => ret = Some(50)
                /\ (res[2] = 0) => ret = Some(0)
                /\ (res[2] = 30) => ret = Some(100)
           ELSE ret = Some(0)

\* C9 witness: get_volume has returned 50 for a reply carrying 15.
C9_Witness ==
    /\ pc = "returned"
    /\ op = "get_volume"
    /\ res = <<\H43, 15>>
    /\ ret = Some(50)

\* the file-count query of a media source (0: it has none)
MediaQuery(media) ==
    IF media = MEDIA_U_DISK THEN \H47
    ELSE IF media = MEDIA_SD THEN \H48
    ELSE IF media = MEDIA_FLASH THEN \H49
    ELSE 0

\* C10: num_files without a folder, for the media source given or else the
\* remembered one: when the source has a file-count query (USB 0x47, SD
\* 0x48, flash 0x49) the call writes that one query frame and returns the
\* data of a reply echoing it (0 without one); when it has none (AUX,
\* sleep) the call returns 0 at once, nothing written and nothing read.
C10_NumFilesByMedia ==
    [][(pc # "returned" /\ pc' = "returned" /\ op' = "num_files"
          /\ args'[1] = None /\ args'[2] # Some(0)) =>
          LET media == IF args'[2] = None THEN _media ELSE args'[2][1]
              cmd   == MediaQuery(media)
          IN  IF cmd = 0
              THEN /\ pc = "idle"
                   /\ ret' = Some(0)
                   /\ err' = ""
                   /\ written' = <<>>
                   /\ rx' = rx
              ELSE /\ pc = "drain"
                   /\ written' = << <<\H7E, \HFF, \H06, cmd, 0, 0, 0, \HEF>> >>
                   /\ ret' = Some(IF res' # None /\ res'[1] = cmd
                                  THEN res'[2] ELSE 0)]_vars

\* C10 witness: num_files() with AUX remembered has returned 0 without
\* writing, bytes still waiting in the receive buffer.
C10_Witness ==
    /\ pc = "returned"
    /\ op = "num_files"
    /\ args = <<None, None>>
    /\ _media = MEDIA_AUX
    /\ ret = Some(0)
    /\ written = <<>>
    /\ rx # <<>>

\* C11: play chooses command and data bytes by the arguments given: none,
\* 0x0D with both data bytes 0; track only, 0x03 with DataL = track mod 256
\* and DataH = track div 256; folder only, 0x12 with DataL = folder and
\* DataH = 0; folder and track, 0x0F with DataH = folder and DataL = track.
\* play(folder=2, track=5) and play(track=517) carry the data bytes 02 05
\* under the commands 0x0F and 0x03.  Arguments that do not fit the data
\* bytes write nothing.
C11_PlayEncoding ==
    (pc = "returned" /\ op = "play") =>
        LET folder == args[1]
            track  == args[2]
            cmd    == IF folder = None
                      THEN (IF track = None THEN \H0D ELSE \H03)
                      ELSE (IF track = None THEN \H12 ELSE \H0F)
            dl     == IF track = None
                      THEN (IF folder = None THEN 0 ELSE folder[1])
                      ELSE (IF folder = None THEN track[1] % 256 ELSE track[1])
            dh     == IF track = None THEN 0
                      ELSE (IF folder = None THEN track[1] \div 256
                            ELSE folder[1])
        IN  /\ IF dl \in 0..255 /\ dh \in 0..255
               THEN /\ err = ""
                    /\ written = << <<\H7E, \HFF, \H06, cmd, 0, dh, dl, \HEF>> >>
               ELSE written = <<>>
            /\ (args = <<Some(2), Some(5)>>) =>
                  written = << <<\H7E, \HFF, \H06, \H0F, 0, 2, 5, \HEF>> >>
            /\ (args = <<None, Some(517)>>) =>
                  written = << <<\H7E, \HFF, \H06, \H03, 0, 2, 5, \HEF>> >>

\* C11 witness: play(folder=2, track=5) has written its frame.
C11_Witness ==
    /\ pc = "returned"
    /\ op = "play"
    /\ args = <<Some(2), Some(5)>>
    /\ Len(written) = 1
    /\ written[1][4] = \H0F

\* an 8-byte command frame: 7E FF 06 <CMD> 00 <DataH> <DataL> EF
IsCommandFrame(f) ==
    /\ Len(f) = 8
    /\ \A i \in 1..8 : f[i] \in 0..255
    /\ f[1] = \H7E /\ f[2] = \HFF /\ f[3] = \H06 /\ f[5] = 0 /\ f[8] = \HEF

\* the call that has returned had an argument no data byte can carry
Unencodable ==
    \/ op = "play" /\ args[1] # None /\ args[1][1] > 255
    \/ op = "play" /\ args[2] # None /\ args[2][1] >= 65536
    \/ op = "loop_folder" /\ args[1] > 255
    \/ op = "set_media" /\ args[1] > 255
    \/ op = "num_files" /\ args[1] # None /\ args[1][1] > 255

\* C12: every byte string handed to uart.write is 8 bytes of the form
\* 7E FF 06 <CMD> 00 <DataH> <DataL> EF, each a byte and the feedback flag
\* 0; a call with an argument that does not fit a data byte (a track of
\* 65536, a folder or media above 255) raises and writes nothing.
C12_FramesWellFormed ==
    /\ \A i \in 1..Len(written) : IsCommandFrame(written[i])
    /\ (pc = "returned" /\ Unencodable) =>
           (written = <<>> /\ slept = <<>> /\ err = "ValueError")

\* C12 witness: loop_folder(256) has raised.
C12_Witness ==
    /\ pc = "returned"
    /\ op = "loop_folder"
    /\ args = <<256>>
    /\ err = "ValueError"
    /\ written = <<>>

\* C13 (as claimed): every query operation returns: a query that is inside
\* _read_response comes to its return, whatever the device sends or does
\* not send meanwhile.
C13_QueryTerminates ==
    (pc = "drain" /\ op \in QueryOps) ~> (pc = "returned")

\* byte values put in place of the feedback and checksum bytes
OtherBytes == {1, 255}

\* C14: on a receive buffer of 10 bytes or more _read_data returns
\* (byte 3, byte 5 * 256 + byte 6) of the first 10 exactly when byte 0 is
\* 0x7E, byte 1 is 0xFF, byte 2 is 0x06 and byte 9 is 0xEF, and nothing
\* otherwise; on 1 to 9 bytes it returns nothing; and the result is the
\* same whatever the feedback byte (4) and the checksum bytes (7, 8) are.
\* (Bytes are counted from 0 in this statement and from 1 in the formula.)
C14_ReadDataDecodes ==
    LET c == SubSeq(rx, 1, FrameLen)
    IN  /\ Len(rx) \in 1..(FrameLen - 1) => _read_data(rx).r = None
        /\ Len(rx) >= FrameLen =>
              /\ _read_data(rx).r =
                    (IF c[1] = \H7E /\ c[2] = \HFF /\ c[3] = \H06
                          /\ c[10] = \HEF
                     THEN <<c[4], c[6] * 256 + c[7]>>
                     ELSE None)
              /\ \A i \in {5, 8, 9}, v \in OtherBytes :
                    _read_data([rx EXCEPT ![i] = v]).r = _read_data(rx).r
              /\ IsValidFrame(c) =>
                    \A i \in {1, 2, 3, 10} :
                        _read_data([rx EXCEPT ![i] = (rx[i] + 1) % 256]).r
                            = None

\* C14 witness: the poll is about to read a chunk with the four markers in
\* place and a checksum that does not match its bytes.
C14_Witness ==
    /\ pc = "drain"
    /\ Len(rx) >= FrameLen
    /\ IsValidFrame(Chunk(rx, 1))
    /\ rx[8] * 256 + rx[9] # (65536 - (rx[2] + rx[3] + rx[4] + rx[5]
                                          + rx[6] + rx[7])) % 65536

\* C15 (as claimed): when fewer than 10 bytes are waiting, _read_response
\* returns without consuming them: the step on which the poll returns
\* leaves a receive buffer of 1 to 9 bytes as it was.
C15_PartialReplyNotConsumed ==
    [][(pc = "drain" /\ pc' # "drain" /\ Len(rx) < FrameLen) =>
          rx' = rx]_vars

\* C16: a public operation other than construction writes at most one
\* frame, and sleeps once after it; bytes are taken from the receive buffer
\* only inside the poll of a query, which begins after the write and the
\* sleep, and nothing is written once the poll has begun; an operation
\* that is not a query returns with the receive buffer as it found it.
C16_WriteThenRead ==
    [][/\ (op' # "__init__") =>
              (Len(written') <= 1 /\ Len(slept') = Len(written'))
       /\ (Len(rx') < Len(rx)) =>
              /\ pc = "drain"
              /\ op \in QueryOps \cup {"__init__"}
              /\ Len(written) >= 1
              /\ Len(slept) = Len(written)
       /\ (pc = "drain" /\ op # "__init__") =>
              (written' = written /\ slept' = slept)
       /\ (pc = "idle" /\ pc' # "idle") =>
              /\ rx' = rx
              /\ (pc' = "drain") <=> (op' \in QueryOps /\ Len(written') = 1)
       /\ (pc' = "returned" /\ op' \notin QueryOps \cup {"__init__"}) =>
              (pc = "idle" /\ rx' = rx)]_vars

\* C16 witness: pause has written its frame and returned with bytes still
\* waiting in the receive buffer.
C16_Witness ==
    /\ pc = "returned"
    /\ op = "pause"
    /\ Len(written) = 1
    /\ rx # <<>>

\* C17 (as claimed): the scaling round-trips: the percent get_volume
\* returns for a reply carrying a device value r of 0..30, given to
\* set_volume, encodes r again.
C17_VolumeRoundTrip ==
    (pc = "returned" /\ op = "get_volume"
        /\ res # None /\ res[1] = \H43 /\ res[2] \in 0..30) =>
        VolumeRaw(ret[1]) = res[2]

\* C18 (as claimed): get_volume returns a percent in 0..100, whatever
\* 16-bit value the reply carries and when there is no reply.
C18_VolumeInRange ==
    (pc = "returned" /\ op = "get_volume") => ret[1] \in 0..100

\* C19: the remembered media source is the argument of the latest
\* set_media call, that of the constructor until then: set_media and the
\* constructor leave their argument in it, also when set_media raises, and
\* no other step changes it (num_files with a media argument and calls
\* that raise included); num_files() without arguments issues the
\* file-count query of the remembered source, and returns 0 with nothing
\* written when that source has none.
C19_MediaRemembered ==
    [][/\ (pc = "new" /\ op' = "__init__") => _media' = args'[1]
       /\ (pc = "idle" /\ op' = "set_media") => _media' = args'[1]
       /\ ~(pc = "new" /\ op' = "__init__")
            /\ ~(pc = "idle" /\ op' = "set_media") => _media' = _media
       /\ (pc = "idle" /\ op' = "num_files" /\ args' = <<None, None>>) =>
              IF MediaQuery(_media) = 0
              THEN written' = <<>> /\ ret' = Some(0) /\ pc' = "returned"
              ELSE /\ pc' = "drain"
                   /\ written' = << <<\H7E, \HFF, \H06, MediaQuery(_media),
                                     0, 0, 0, \HEF>> >>]_vars

\* C19 witness: set_media(256) has raised and 256 is the remembered source.
C19_Witness ==
    /\ pc = "returned"
    /\ op = "set_media"
    /\ args = <<256>>
    /\ err = "ValueError"
    /\ _media = 256

\* C20 (as claimed): when the poll of a query begins on a receive buffer
\* of 10-byte chunks one of which is a valid frame echoing the command
\* just written, _read_response returns a frame with that echo, so that
\* the query returns data and not "no answer", whatever the other chunks
\* are.
C20_ReceivedAnswerIsReturned ==
    (/\ pc = "drain"
     /\ op \in QueryOps
     /\ res = None
     /\ Aligned(rx)
     /\ \E i \in 1..Chunks(rx) :
           /\ IsValidFrame(Chunk(rx, i))
           /\ FrameValue(Chunk(rx, i))[1] = qcmd) =>
        LET e == _read_response(res, rx).res
        IN  e # None /\ e[1] = qcmd

====
